---- MODULE Spec2Model ----
(***************************************************************************)
(* A model of the natural-images repository:                               *)
(*   prepare_data.py  - split_dataset / main (stratified random split)     *)
(*   main.py          - NaturalImagesDataset, the training loop of main    *)
(* File names are sequences of one-character strings, so that lower() and  *)
(* endswith() are computed and not assumed.  The float products of         *)
(* split_dataset are computed in IEEE-754 double precision on bit strings. *)
(***************************************************************************)
EXTENDS Integers, Sequences, FiniteSets, TLC

(***************************************************************************)
(* Bounds of the model.                                                    *)
(***************************************************************************)
\* entries of the larger class folder of the raw dataset (a prefix of Pool)
MaxFiles == 5
\* entries of the smaller class folder of the raw dataset
MaxFilesB == 2
\* calls of prepare_data.main / split_dataset in one behaviour
MaxRuns == 2
\* largest class size of the size-only view of split_dataset (SplitSizes)
MaxN == 100
\* entries of a class folder where prepare_data.main is run twice, and of root_dir's
MaxFilesRepro == 3

(***************************************************************************)
(* Strings.                                                                *)
(***************************************************************************)
UpperAlpha == <<"A","B","C","D","E","F","G","H","I","J","K","L","M",
                "N","O","P","Q","R","S","T","U","V","W","X","Y","Z">>
LowerAlpha == <<"a","b","c","d","e","f","g","h","i","j","k","l","m",
                "n","o","p","q","r","s","t","u","v","w","x","y","z">>

\* str.lower() on one character
LowerChar(c) ==
    IF \E i \in 1..Len(UpperAlpha) : UpperAlpha[i] = c
    THEN LowerAlpha[CHOOSE i \in 1..Len(UpperAlpha) : UpperAlpha[i] = c]
    ELSE c

\* str.lower()
Lower(s) == [i \in 1..Len(s) |-> LowerChar(s[i])]

\* str.endswith(suffix)
EndsWith(s, suf) ==
    /\ Len(suf) <= Len(s)
    /\ SubSeq(s, Len(s) - Len(suf) + 1, Len(s)) = suf

\* the tuple ('.jpg', '.jpeg', '.png')
ImageSuffixes == { <<".","j","p","g">>, <<".","j","p","e","g">>, <<".","p","n","g">> }

IsImageNameNoLower(f) == \E suf \in ImageSuffixes : EndsWith(f, suf)

\* f.lower().endswith(('.jpg', '.jpeg', '.png'))
IsImageName(f) == \E suf \in ImageSuffixes : EndsWith(Lower(f), suf)

(***************************************************************************)
(* IEEE-754 doubles, as far as int(n_files * ratio) needs them.  A double  *)
(* is [mant, exp]: a 53-bit significand (least significant bit first) and  *)
(* the value mant * 2^(-exp).                                              *)
(***************************************************************************)
MantBits == 53

RECURSIVE NatToBits(_)
NatToBits(k) == IF k = 0 THEN <<>> ELSE <<k % 2>> \o NatToBits(k \div 2)

RECURSIVE BitsToNat(_)
BitsToNat(b) == IF b = <<>> THEN 0 ELSE Head(b) + 2 * BitsToNat(Tail(b))

\* the exact product of a bit string and a small natural number
RECURSIVE MulSmall(_, _, _)
MulSmall(b, n, carry) ==
    IF b = <<>> THEN NatToBits(carry)
    ELSE LET t == Head(b) * n + carry
         IN  <<t % 2>> \o MulSmall(Tail(b), n, t \div 2)

RECURSIVE Inc(_)
Inc(b) == IF b = <<>> THEN <<1>>
          ELSE IF Head(b) = 0 THEN <<1>> \o Tail(b)
          ELSE <<0>> \o Inc(Tail(b))

\* a double whose significand is 1 followed by a repeated 4-bit pattern
Double(pattern, e) ==
    [mant |-> [i \in 1..MantBits |->
                  IF i = MantBits THEN 1 ELSE pattern[((i - 1) % 4) + 1]],
     exp |-> e]

\* 0.7  = 0x1.6666666666666p-1
Ratio070 == Double(<<0, 1, 1, 0>>, 53)
\* 0.15 = 0x1.3333333333333p-3
Ratio015 == Double(<<1, 1, 0, 0>>, 55)
\* 0.5  = 0x1.0p-1
Ratio050 == Double(<<0, 0, 0, 0>>, 53)
\* 0.25 = 0x1.0p-2
Ratio025 == Double(<<0, 0, 0, 0>>, 54)

\* the result of a float operation, rounded to 53 bits, ties to even
RoundNearestEven(p) ==
    LET L == Len(p)
        r == L - MantBits
    IN  IF r <= 0 THEN [sig |-> p, shift |-> 0]
        ELSE LET kept == SubSeq(p, r + 1, L)
                 sticky == \E i \in 1..(r - 1) : p[i] = 1
                 up == p[r] = 1 /\ (sticky \/ kept[1] = 1)
             IN  [sig |-> IF up THEN Inc(kept) ELSE kept, shift |-> r]

\* int(n * ratio): the float product, then truncation towards zero
IntOfProduct(n, ratio) ==
    IF n = 0 THEN 0
    ELSE LET f == RoundNearestEven(MulSmall(ratio.mant, n, 0))
             drop == ratio.exp - f.shift
         IN  BitsToNat(SubSeq(f.sig, drop + 1, Len(f.sig)))

(***************************************************************************)
(* Python list slices x[a:b] and x[a:] for 0 <= a.                         *)
(***************************************************************************)
Min(a, b) == IF a <= b THEN a ELSE b

Slice(x, a, b) == SubSeq(x, Min(a, Len(x)) + 1, Min(b, Len(x)))

SliceFrom(x, a) == SubSeq(x, Min(a, Len(x)) + 1, Len(x))

Range(s) == { s[i] : i \in 1..Len(s) }

\* every ordering of a finite set: the orders os.listdir may return
RECURSIVE Orderings(_)
Orderings(S) ==
    IF S = {} THEN { << >> }
    ELSE UNION { { <<e>> \o s : s \in Orderings(S \ {e}) } : e \in S }

(***************************************************************************)
(* The raw dataset.  Entry names of source_dir are strings; the names in a *)
(* class folder are character sequences.                                   *)
(***************************************************************************)
Pool == << <<"a",".","j","p","g">>,
           <<"b",".","P","N","G">>,
           <<"n",".","t","x","t">>,
           <<"c",".","J","p","e","g">>,
           <<"d",".","p","n","g">>,
           <<"j","p","g">>,
           <<"e",".","g","i","f">> >>

Prefix(k) == { Pool[i] : i \in 1..Min(k, Len(Pool)) }

Folder(files) == [isdir |-> TRUE, files |-> files]
RegularFile == [isdir |-> FALSE, files |-> {}]

Tree(k1, hasB, k2, stray) ==
    [e \in {"cat"} \cup (IF hasB THEN {"dog"} ELSE {}) \cup (IF stray THEN {".DS_Store"} ELSE {})
        |-> CASE e = "cat" -> Folder(Prefix(k1))
              [] e = "dog" -> Folder(Prefix(k2))
              [] OTHER -> RegularFile]

RawDatasets ==
    { [exists |-> FALSE, entries |-> << >>] } \cup
    { [exists |-> TRUE, entries |-> Tree(k1, hasB, k2, stray)] :
        k1 \in 0..MaxFiles, hasB \in BOOLEAN, k2 \in 0..MaxFilesB, stray \in BOOLEAN }

Splits == <<"train", "val", "test">>

\* (train_ratio, val_ratio): the defaults, and a call with other ratios
\* as float literals; DoubleOf gives the double a literal denotes
DefaultRatios == [train |-> "0.7", val |-> "0.15"]
RatioPairs == { DefaultRatios, [train |-> "0.5", val |-> "0.25"] }

DoubleOf(literal) ==
    CASE literal = "0.7" -> Ratio070
      [] literal = "0.15" -> Ratio015
      [] literal = "0.5" -> Ratio050
      [] literal = "0.25" -> Ratio025

VARIABLES
    raw,          \* source_dir on disk
    dest_dirs,    \* directories under train_dir, val_dir, test_dir (paths)
    dest_files,   \* files under train_dir, val_dir, test_dir (paths)
    pc,           \* where prepare_data is: idle, loop, done, raised
    class_dirs,   \* the class folders split_dataset has still to process
    ratios,       \* train_ratio and val_ratio of the running call
    rng,          \* the random module's generator: seeded?, draws since the seed
    mt,           \* the generator's output after seed(42), as far as it was drawn
    run,          \* calls of split_dataset / main started
    copied,       \* per call, the destinations shutil.copy2 wrote
    summary,      \* the last "<class>: n train, n val, n test" line printed
    n_images,     \* size-only view: the number of image files of the class
    calls_left    \* calls of prepare_data the user will still make

prepVars == <<raw, dest_dirs, dest_files, pc, class_dirs, ratios, rng, mt, run,
              copied, summary, n_images, calls_left>>

\* main.py: NaturalImagesDataset
VARIABLES
    root,         \* the entries of root_dir on disk
    ds,           \* the dataset object: built?, transform?, classes, images, labels
    item          \* what the last __getitem__ call did

dataVars == <<root, ds, item>>

\* main.py: the training pipeline of main
VARIABLES
    tpc,          \* where main is
    train_size,   \* len(train_dataset)
    val_size,     \* len(val_dataset)
    epoch,        \* epochs completed
    model_state,  \* the model's weights: the number of train_epoch calls so far
    cur,          \* train_loss, train_acc, val_loss, val_acc of the running epoch
    train_losses, val_losses, train_accs, val_accs,
    best_val_acc,
    checkpoint,   \* best_model.pth: the model_state saved, 0 when there is no file
    saves,        \* the epochs (1-based) in which torch.save was called
    events        \* the reports produced, in order

trainVars == <<tpc, train_size, val_size, epoch, model_state, cur, train_losses, val_losses,
               train_accs, val_accs, best_val_acc, checkpoint, saves, events>>

vars == <<prepVars, dataVars, trainVars>>

NoSummary == [n |-> 0, train |-> 0, val |-> 0, test |-> 0]

PrepIdle ==
    /\ dest_dirs = {} /\ dest_files = {}
    /\ pc = "idle" /\ class_dirs = << >>
    /\ ratios = DefaultRatios
    /\ rng = [seeded |-> FALSE, hist |-> << >>]
    /\ mt = << >>
    /\ run = 0 /\ copied = << >>
    /\ summary = NoSummary

(***************************************************************************)
(* split_dataset, one class folder at a time.                              *)
(***************************************************************************)
ImageFilesCaseSensitive(listing) == SelectSeq(listing, IsImageNameNoLower)

\* [f for f in listing if f.lower().endswith(...)]
ImageFiles(listing) == SelectSeq(listing, IsImageName)

Swap(x, i, j) == [x EXCEPT ![i] = x[j], ![j] = x[i]]

\* random.shuffle(x): for i in reversed(range(1, len(x))): j = randbelow(i + 1);
\* x[i], x[j] = x[j], x[i].  js[t] is the t-th value randbelow returned.
RECURSIVE ShuffleFrom(_, _, _)
ShuffleFrom(x, js, t) ==
    IF t > Len(js) THEN x
    ELSE ShuffleFrom(Swap(x, Len(x) - t + 1, js[t] + 1), js, t + 1)

Shuffle(x, js) == ShuffleFrom(x, js, 1)

\* the arguments of the randbelow calls of one shuffle of n elements
Ks(n) == [t \in 1..(n - 1) |-> n - t + 1]

\* the generator after it answered the first t of these calls
HistAfter(hist, n, t) == hist \o SubSeq(Ks(n), 1, t)

\* what randbelow may return: below its argument, and, once seeded, what the
\* same seed returned before at the same point of the same sequence of calls
Draws(n) ==
    { js \in [1..(n - 1) -> 0..(n - 1)] :
        \A t \in 1..(n - 1) :
            /\ js[t] < Ks(n)[t]
            /\ (rng.seeded /\ HistAfter(rng.hist, n, t) \in DOMAIN mt)
                  => js[t] = mt[HistAfter(rng.hist, n, t)] }

Record(n, js) ==
    IF ~rng.seeded THEN mt
    ELSE LET new == { HistAfter(rng.hist, n, t) : t \in 1..(n - 1) }
         IN  [h \in DOMAIN mt \cup new |->
                 IF h \in DOMAIN mt THEN mt[h]
                 ELSE js[CHOOSE t \in 1..(n - 1) : HistAfter(rng.hist, n, t) = h]]

\* n_train = int(n_files * train_ratio)
NTrain(n_files, r) == IntOfProduct(n_files, DoubleOf(r.train))

NValFromTrainRatio(n_files, r) == IntOfProduct(n_files, DoubleOf(r.train))

\* n_val = int(n_files * val_ratio)
NVal(n_files, r) == IntOfProduct(n_files, DoubleOf(r.val))

\* image_files[:n_train]
TrainFiles(x, n_train) == Slice(x, 0, n_train)

\* image_files[n_train:n_train + n_val]
ValFiles(x, n_train, n_val) == Slice(x, n_train, n_train + n_val)

\* image_files[n_train + n_val:]
TestFiles(x, n_train, n_val) == SliceFrom(x, n_train + n_val)

\* the destinations of the copies of one class
Copies(class_name, x, n_train, n_val) ==
    { <<"train", class_name, f>> : f \in Range(TrainFiles(x, n_train)) } \cup
    { <<"val", class_name, f>> : f \in Range(ValFiles(x, n_train, n_val)) } \cup
    { <<"test", class_name, f>> : f \in Range(TestFiles(x, n_train, n_val)) }

\* "<class>: {len(train_files)} train, {len(val_files)} val, {len(test_files)} test"
SummaryOf(x, n_train, n_val) ==
    [n |-> Len(x), train |-> Len(TrainFiles(x, n_train)),
     val |-> Len(ValFiles(x, n_train, n_val)), test |-> Len(TestFiles(x, n_train, n_val))]

\* d for d in os.listdir(source_dir) if os.path.isdir(...)
ClassFolders == { e \in DOMAIN raw.entries : raw.entries[e].isdir }

MayStart == pc \in {"idle", "done", "raised"} /\ calls_left > 0

\* split_dataset up to its loop: the three directories, the class folders
Begin(r, generator) ==
    /\ raw.exists
    /\ \E order \in Orderings(ClassFolders) : class_dirs' = order
    /\ dest_dirs' = dest_dirs \cup { <<Splits[i]>> : i \in 1..3 }
    /\ ratios' = r
    /\ rng' = generator
    /\ pc' = "loop"
    /\ run' = run + 1
    /\ calls_left' = calls_left - 1
    /\ copied' = Append(copied, {})
    /\ UNCHANGED <<raw, dest_files, mt, summary, n_images,
                   dataVars, trainVars>>

Seeded == [seeded |-> TRUE, hist |-> << >>]

\* prepare_data.main: seed(42), then split_dataset with the default ratios
main_split == MayStart /\ Begin(DefaultRatios, Seeded)

\* prepare_data.main when source_dir does not exist: the early return
main_no_source ==
    /\ MayStart
    /\ ~raw.exists
    /\ rng' = Seeded
    /\ pc' = "done"
    /\ run' = run + 1
    /\ calls_left' = calls_left - 1
    /\ copied' = Append(copied, {})
    /\ UNCHANGED <<raw, dest_dirs, dest_files, class_dirs, ratios, mt, summary, n_images,
                   dataVars, trainVars>>

\* a call of split_dataset with ratios of the caller's choice, no seed
split_dataset == MayStart /\ \E r \in RatioPairs : Begin(r, rng)

\* the same call when source_dir does not exist: os.listdir raises
split_dataset_no_source ==
    /\ MayStart
    /\ ~raw.exists
    /\ dest_dirs' = dest_dirs \cup { <<Splits[i]>> : i \in 1..3 }
    /\ pc' = "raised"
    /\ run' = run + 1
    /\ calls_left' = calls_left - 1
    /\ copied' = Append(copied, {})
    /\ UNCHANGED <<raw, dest_files, class_dirs, ratios, rng, mt, summary, n_images,
                   dataVars, trainVars>>

ClassDirsOf(class_name) == { <<Splits[i], class_name>> : i \in 1..3 }

\* image_files, for every order os.listdir(class_dir) may return
ImageListings(class_name) ==
    { ImageFiles(listing) : listing \in Orderings(raw.entries[class_name].files) }

\* one iteration of the loop over class_dirs, for a class with image files
process_class ==
    /\ pc = "loop" /\ class_dirs # << >>
    /\ LET class_name == Head(class_dirs)
       IN  \E image_files \in ImageListings(class_name) :
             LET n_files == Len(image_files)
                 n_train == NTrain(n_files, ratios)
                 n_val == NVal(n_files, ratios)
             IN  /\ n_files > 0
                 /\ \E js \in Draws(n_files) :
                      LET x == Shuffle(image_files, js)
                          new == Copies(class_name, x, n_train, n_val)
                      IN  /\ dest_files' = dest_files \cup new
                          /\ copied' = [copied EXCEPT ![run] = @ \cup new]
                          /\ summary' = SummaryOf(x, n_train, n_val)
                          /\ mt' = Record(n_files, js)
                          /\ rng' = [rng EXCEPT !.hist = IF rng.seeded
                                                         THEN HistAfter(@, n_files, n_files - 1)
                                                         ELSE @]
                 /\ dest_dirs' = dest_dirs \cup ClassDirsOf(class_name)
                 /\ class_dirs' = Tail(class_dirs)
    /\ UNCHANGED <<raw, pc, ratios, run, n_images, calls_left,
                   dataVars, trainVars>>

\* one iteration for a class folder without image files: "No images found"
skip_class ==
    /\ pc = "loop" /\ class_dirs # << >>
    /\ LET class_name == Head(class_dirs)
       IN  /\ \A image_files \in ImageListings(class_name) : image_files = << >>
           /\ dest_dirs' = dest_dirs \cup ClassDirsOf(class_name)
    /\ class_dirs' = Tail(class_dirs)
    /\ UNCHANGED <<raw, dest_files, pc, ratios, rng, mt, run, copied, summary, n_images, calls_left,
                   dataVars, trainVars>>

\* the loop is over: split_dataset returns
split_return ==
    /\ pc = "loop" /\ class_dirs = << >>
    /\ pc' = "done"
    /\ UNCHANGED <<raw, dest_dirs, dest_files, class_dirs, ratios, rng, mt, run, copied,
                   summary, n_images, calls_left,
                   dataVars, trainVars>>

(***************************************************************************)
(* The size-only view of one loop iteration: lines 61-76 and the summary   *)
(* line, for a class of n_images image files whose names are left out.     *)
(***************************************************************************)
split_sizes ==
    /\ pc = "idle" /\ n_images > 0
    /\ \E r \in RatioPairs :
          /\ ratios' = r
          /\ summary' = SummaryOf([i \in 1..n_images |-> i],
                                  NTrain(n_images, r), NVal(n_images, r))
    /\ pc' = "done"
    /\ UNCHANGED <<raw, dest_dirs, dest_files, class_dirs, rng, mt, run, copied, n_images, calls_left,
                   dataVars, trainVars>>

skip_sizes ==
    /\ pc = "idle" /\ n_images = 0
    /\ pc' = "done"
    /\ UNCHANGED <<raw, dest_dirs, dest_files, class_dirs, ratios, rng, mt, run, copied,
                   summary, n_images, calls_left,
                   dataVars, trainVars>>

(***************************************************************************)
(* main.py: NaturalImagesDataset.                                          *)
(***************************************************************************)

NoDataset == [built |-> FALSE, transform |-> FALSE, classes |-> << >>,
              images |-> << >>, labels |-> << >>]
NoItem == [kind |-> "no call", failed |-> "nothing", idx |-> 0, label |-> 0]

DataIdle == root = << >> /\ ds = NoDataset /\ item = NoItem

\* the entry names of the model in Python's string order ('.' < 'c' < 'd')
EntryOrder == <<".DS_Store", "cat", "dog">>

\* sorted(os.listdir(root_dir))
SortedListdir(names) == SelectSeq(EntryOrder, LAMBDA e : e \in names)

\* class_to_idx[cls_name], 0-based as in the code
ClassToIdx(classes, cls_name) == (CHOOSE i \in 1..Len(classes) : classes[i] = cls_name) - 1

\* the loop over self.classes: listing[c] is what os.listdir(class_dir) returned.
\* Gives the sequence of (path, label) pairs appended, path = <<class, name>>.
RECURSIVE Index(_, _, _)
Index(classes, k, listing) ==
    IF k > Len(classes) THEN << >>
    ELSE LET class_name == classes[k]
             found == IF root[class_name].isdir
                      THEN SelectSeq(listing[class_name], IsImageName)
                      ELSE << >>
         IN  [i \in 1..Len(found) |->
                 [path |-> <<class_name, found[i]>>,
                  label |-> ClassToIdx(classes, class_name)]]
             \o Index(classes, k + 1, listing)

Listings ==
    { l \in [DOMAIN root -> UNION { Orderings(root[e].files) : e \in DOMAIN root }] :
        \A e \in DOMAIN root : Range(l[e]) = root[e].files }

\* NaturalImagesDataset.__init__(root_dir, transform)
dataset_init ==
    /\ ~ds.built
    /\ \E transform \in BOOLEAN, listing \in Listings :
          LET classes == SortedListdir(DOMAIN root)
              pairs == Index(classes, 1, listing)
          IN  ds' = [built |-> TRUE, transform |-> transform, classes |-> classes,
                     images |-> [i \in 1..Len(pairs) |-> pairs[i].path],
                     labels |-> [i \in 1..Len(pairs) |-> pairs[i].label]]
    /\ UNCHANGED <<root, item,
                   prepVars, trainVars>>

\* the except branch: return torch.zeros((3, 224, 224)), label.  label is a local
\* of __getitem__ that is assigned inside the try, after the image was opened.
ExceptReturn(idx, failed, label_bound) ==
    IF label_bound
    THEN [kind |-> "zeros", failed |-> failed, idx |-> idx, label |-> ds.labels[idx + 1]]
    ELSE [kind |-> "UnboundLocalError", failed |-> failed, idx |-> idx, label |-> 0]

ValidIdx == 0..(Len(ds.images) - 1)

\* __getitem__(idx): the image opens, converts and transforms
getitem_ok ==
    /\ ds.built
    /\ \E idx \in ValidIdx :
          item' = [kind |-> "image", failed |-> "nothing", idx |-> idx,
                   label |-> ds.labels[idx + 1]]
    /\ UNCHANGED <<root, ds,
                   prepVars, trainVars>>

\* __getitem__(idx): Image.open(img_path).convert('RGB') raises
getitem_open_fails ==
    /\ ds.built
    /\ \E idx \in ValidIdx : item' = ExceptReturn(idx, "open", FALSE)
    /\ UNCHANGED <<root, ds,
                   prepVars, trainVars>>

\* __getitem__(idx): self.transform(image) raises
getitem_transform_fails ==
    /\ ds.built /\ ds.transform
    /\ \E idx \in ValidIdx : item' = ExceptReturn(idx, "transform", TRUE)
    /\ UNCHANGED <<root, ds,
                   prepVars, trainVars>>

(***************************************************************************)
(* main.py: the training pipeline of main.                                 *)
(***************************************************************************)
num_epochs == 10

\* images in the training and in the validation folder
MaxImages == 1


NoCur == [train_loss |-> 0, train_acc |-> 0, val_loss |-> 0, val_acc |-> 0]

TrainStart ==
    /\ tpc = "loop" /\ epoch = 0 /\ model_state = 0 /\ cur = NoCur
    /\ train_losses = << >> /\ val_losses = << >>
    /\ train_accs = << >> /\ val_accs = << >>
    /\ best_val_acc = 0 /\ checkpoint = 0 /\ saves = << >> /\ events = << >>

TrainIdle == TrainStart /\ train_size = 0 /\ val_size = 0


LoopOneMore(e) == e <= num_epochs

\* for epoch in range(num_epochs)
LoopContinues(e) == e < num_epochs

\* val_acc = 100. * correct / total, kept as its numerator over the denominator
\* total, which is len(val_dataset) in every epoch of a run: the float quotient
\* grows with the numerator, so val_acc > best_val_acc compares numerators
ValAcc(correct, total) == IF total > 0 THEN 100 * correct ELSE 0

\* train_epoch(model, ...): one pass of the optimizer over the training set.
\* Its loss and accuracy are named by the call that measured them.
call_train_epoch ==
    /\ tpc = "loop" /\ LoopContinues(epoch)
    /\ train_size > 0
    /\ model_state' = model_state + 1
    /\ cur' = [NoCur EXCEPT !.train_loss = model_state + 1, !.train_acc = model_state + 1]
    /\ tpc' = "validate"
    /\ UNCHANGED <<train_size, val_size, epoch, train_losses, val_losses, train_accs,
                   val_accs, best_val_acc, checkpoint, saves, events,
                   prepVars, dataVars>>

\* train_epoch on an empty loader: running_loss / len(train_loader) divides by zero
train_epoch_raises ==
    /\ tpc = "loop" /\ LoopContinues(epoch)
    /\ train_size = 0
    /\ tpc' = "ZeroDivisionError"
    /\ UNCHANGED <<train_size, val_size, epoch, model_state, cur, train_losses, val_losses,
                   train_accs, val_accs, best_val_acc, checkpoint, saves, events,
                   prepVars, dataVars>>

\* validate(model, ...): the loss is named by the weights it was measured on
call_validate ==
    /\ tpc = "validate"
    /\ val_size > 0
    /\ \E correct \in 0..val_size :
          cur' = [cur EXCEPT !.val_loss = model_state, !.val_acc = ValAcc(correct, val_size)]
    /\ tpc' = "record"
    /\ UNCHANGED <<train_size, val_size, epoch, model_state, train_losses, val_losses,
                   train_accs, val_accs, best_val_acc, checkpoint, saves, events,
                   prepVars, dataVars>>

\* validate on an empty loader: running_loss / len(val_loader) divides by zero
validate_raises ==
    /\ tpc = "validate"
    /\ val_size = 0
    /\ tpc' = "ZeroDivisionError"
    /\ UNCHANGED <<train_size, val_size, epoch, model_state, cur, train_losses, val_losses,
                   train_accs, val_accs, best_val_acc, checkpoint, saves, events,
                   prepVars, dataVars>>

IsNewBestOrEqual(val_acc, best) == val_acc >= best

\* if val_acc > best_val_acc
IsNewBest(val_acc, best) == val_acc > best

\* the rest of the loop body: the four appends, then the best-model save
end_epoch ==
    /\ tpc = "record"
    /\ train_losses' = Append(train_losses, cur.train_loss)
    /\ val_losses' = Append(val_losses, cur.val_loss)
    /\ train_accs' = Append(train_accs, cur.train_acc)
    /\ val_accs' = Append(val_accs, cur.val_acc)
    /\ IF IsNewBest(cur.val_acc, best_val_acc)
       THEN /\ best_val_acc' = cur.val_acc
            /\ checkpoint' = model_state
            /\ saves' = Append(saves, epoch + 1)
       ELSE UNCHANGED <<best_val_acc, checkpoint, saves>>
    /\ epoch' = epoch + 1
    /\ tpc' = "loop"
    /\ UNCHANGED <<train_size, val_size, model_state, cur, events,
                   prepVars, dataVars>>

Report(at, what, next) ==
    /\ tpc = at
    /\ events' = Append(events, what)
    /\ tpc' = next
    /\ UNCHANGED <<train_size, val_size, epoch, model_state, cur, train_losses, val_losses,
                   train_accs, val_accs, best_val_acc, checkpoint, saves,
                   prepVars, dataVars>>

\* the loop is over: plot_training_curves(...)
plot_curves == ~LoopContinues(epoch) /\ Report("loop", "training_curves", "test")

\* the predictions for the test set
test_predictions == tpc = "test" /\ Report("test", "test_predictions", "matrix")

\* plot_confusion_matrix(...)
confusion == tpc = "matrix" /\ Report("matrix", "confusion_matrix", "report")

\* print(classification_report(...)), "Training completed!"
report == tpc = "report" /\ Report("report", "classification_report", "end")


PrepInit ==
    /\ raw \in RawDatasets /\ PrepIdle /\ n_images = 0 /\ calls_left = 1
    /\ DataIdle /\ TrainIdle

PrepNext ==
    \/ main_split
    \/ main_no_source
    \/ split_dataset
    \/ split_dataset_no_source
    \/ process_class
    \/ skip_class
    \/ split_return

\* prepare_data.py on a raw dataset
SpecPrep == PrepInit /\ [][PrepNext]_vars

SmallDatasets ==
    { d \in RawDatasets :
        \A e \in DOMAIN d.entries : Cardinality(d.entries[e].files) <= MaxFilesRepro }

ReproInit ==
    /\ raw \in SmallDatasets /\ PrepIdle /\ n_images = 0 /\ calls_left = MaxRuns
    /\ DataIdle /\ TrainIdle

ReproNext ==
    \/ main_split
    \/ main_no_source
    \/ process_class
    \/ skip_class
    \/ split_return

\* prepare_data.main run MaxRuns times on the same raw dataset
SpecRepro == ReproInit /\ [][ReproNext]_vars

SizesInit ==
    /\ raw = [exists |-> FALSE, entries |-> << >>]
    /\ PrepIdle
    /\ n_images \in 0..MaxN
    /\ calls_left = 0
    /\ DataIdle /\ TrainIdle

SizesNext == split_sizes \/ skip_sizes

\* split_dataset's arithmetic on class sizes 0..MaxN
SpecSizes == SizesInit /\ [][SizesNext]_vars

PrepRest ==
    /\ raw = [exists |-> FALSE, entries |-> << >>]
    /\ PrepIdle /\ n_images = 0 /\ calls_left = 0

DataInit ==
    /\ PrepRest /\ TrainIdle
    /\ root \in { d.entries : d \in { e \in SmallDatasets : e.exists } }
    /\ ds = NoDataset /\ item = NoItem

DataNext ==
    \/ dataset_init
    \/ getitem_ok
    \/ getitem_open_fails
    \/ getitem_transform_fails

\* a NaturalImagesDataset over a folder tree, and the reads of its items
SpecData == DataInit /\ [][DataNext]_vars

TrainInit ==
    /\ PrepRest /\ DataIdle
    /\ TrainStart
    /\ train_size \in 0..MaxImages
    /\ val_size \in 0..MaxImages

TrainNext ==
    \/ call_train_epoch
    \/ train_epoch_raises
    \/ call_validate
    \/ validate_raises
    \/ end_epoch
    \/ plot_curves
    \/ test_predictions
    \/ confusion
    \/ report

\* main.main from the start of its training loop
SpecTrain == TrainInit /\ [][TrainNext]_vars

(***************************************************************************)
(* Properties of prepare_data.py.                                          *)
(***************************************************************************)
ImageFilesOf(c) == { f \in raw.entries[c].files : IsImageName(f) }

SplitsHolding(c, f) == { s \in Range(Splits) : <<s, c, f>> \in dest_files }

\* C1: after one run of split_dataset into empty train/val/test directories,
\* every image file (.jpg/.jpeg/.png, in any case) of every class folder is in
\* exactly one split, under its class name and its own name, and the splits
\* hold nothing else.
C1_Partition ==
    pc = "done" =>
        /\ \A c \in ClassFolders : \A f \in ImageFilesOf(c) :
              Cardinality(SplitsHolding(c, f)) = 1
        /\ \A p \in dest_files :
              /\ p[1] \in Range(Splits)
              /\ p[2] \in ClassFolders
              /\ p[3] \in ImageFilesOf(p[2])

\* a finished run that filled all three splits of cat, copied the upper-case
\* b.PNG, split dog as well and left a file of cat that is no image behind
C1_Witness ==
    /\ pc = "done"
    /\ \A s \in Range(Splits) : \E p \in dest_files : p[1] = s /\ p[2] = "cat"
    /\ \E s \in Range(Splits) : <<s, "cat", Pool[2]>> \in dest_files
    /\ \E p \in dest_files : p[2] = "dog"
    /\ \E f \in raw.entries["cat"].files : ~IsImageName(f)

SizesDone == pc = "done" /\ ratios = DefaultRatios /\ summary.n >= 1

RoundedDown == {90}

C3_Reproducible ==
    (pc = "done" /\ run = 2) => copied[1] = copied[2]

(***************************************************************************)
(* Properties of NaturalImagesDataset.                                     *)
(***************************************************************************)
\* C4: __getitem__ on a valid index never raises: it returns the zero tensor
\* with labels[idx] when the image could not be loaded, and the image with
\* labels[idx] otherwise.
C4_NeverRaises ==
    item.kind # "no call" =>
        /\ item.kind = (IF item.failed = "nothing" THEN "image" ELSE "zeros")
        /\ item.label = ds.labels[item.idx + 1]

DirsOf(tree) == { e \in DOMAIN tree : tree[e].isdir }

\* C6: classes is the sorted list of the directories under root_dir, images
\* and labels have one length, images[i] is an image file directly inside
\* root_dir/classes[labels[i]], and every image file of every class folder is
\* in images exactly once.
C6_Index ==
    ds.built =>
        /\ ds.classes = SelectSeq(EntryOrder, LAMBDA e : e \in DirsOf(root))
        /\ Len(ds.images) = Len(ds.labels)
        /\ \A i \in 1..Len(ds.images) :
              /\ ds.labels[i] \in 0..(Len(ds.classes) - 1)
              /\ ds.images[i][1] = ds.classes[ds.labels[i] + 1]
              /\ root[ds.images[i][1]].isdir
              /\ ds.images[i][2] \in root[ds.images[i][1]].files
              /\ IsImageName(ds.images[i][2])
        /\ \A c \in DirsOf(root) : \A f \in root[c].files :
              IsImageName(f) =>
                  Cardinality({ i \in 1..Len(ds.images) : ds.images[i] = <<c, f>> }) = 1

(***************************************************************************)
(* Properties of the training pipeline.                                    *)
(***************************************************************************)
MaxOf(S) == CHOOSE m \in S : \A x \in S : x <= m

BestSoFar == MaxOf(Range(val_accs))

\* the earliest epoch that reached the best validation accuracy so far
FirstBest == CHOOSE i \in 1..Len(val_accs) :
                 val_accs[i] = BestSoFar /\ \A j \in 1..(i - 1) : val_accs[j] < BestSoFar

StrictlyBest(k) == \A j \in 1..(k - 1) : val_accs[j] < val_accs[k]

ReportOrder == <<"training_curves", "test_predictions", "confusion_matrix",
                 "classification_report">>

\* C7: the four lists are as long as the number of epochs done, entry i comes
\* from the i-th train_epoch call and from the validate call on the weights it
\* left, there are never more than num_epochs epochs, the reports start only
\* after all of them, and they come in the order curves, test predictions,
\* confusion matrix, classification report.
C7_Pipeline ==
    /\ epoch \in 0..num_epochs
    /\ Len(train_losses) = epoch /\ Len(val_losses) = epoch
    /\ Len(train_accs) = epoch /\ Len(val_accs) = epoch
    /\ \A i \in 1..epoch :
          train_losses[i] = i /\ train_accs[i] = i /\ val_losses[i] = i
    /\ tpc \in {"validate", "record"} => model_state = epoch + 1
    /\ tpc \in {"loop", "test", "matrix", "report", "end"} => model_state = epoch
    /\ model_state \in {epoch, epoch + 1}
    /\ events # << >> => epoch = num_epochs /\ model_state = num_epochs
    /\ events = SubSeq(ReportOrder, 1, Len(events))
    /\ tpc = "end" => events = ReportOrder

\* main has finished: ten epochs and the four reports
C7_Witness ==
    /\ tpc = "end"
    /\ epoch = num_epochs
    /\ events = ReportOrder

====
